---- MODULE Spec2Model ----
(***************************************************************************)
(* Model of src/python/utils.py: the DatabaseConnection wrapper (construct, *)
(* execute_query, execute_nonquery, execute_script, get_table, close) and   *)
(* the two result utilities validate_dataframe and save_results.            *)
(*                                                                          *)
(* Text is modelled as a sequence of one-character strings, so that the    *)
(* string operations of the script splitter (split, strip, startswith,     *)
(* endswith, join) are computed character by character as Python does.     *)
(* The database driver and the file system are the environment: every call *)
(* into them returns or raises by a nondeterministic choice.               *)
(***************************************************************************)
EXTENDS Integers, Sequences, FiniteSets, TLC

VARIABLES
    password,       \* os.getenv('DB_PASSWORD'): None or a text (an Optional)
    scriptFile,     \* content of the .sql file on disk
    engine,         \* self.engine: "unset" (attribute never assigned), "None", or an engine record
    enginesCreated, \* number of create_engine calls made so far
    disposed,       \* TRUE once engine.dispose() has been called
    checkedOut,     \* connections currently checked out of the engine's pool
    op,             \* the last call made by the caller
    outcome,        \* how the last call ended: [status, value, error]
    log,            \* the log records the last call emitted, in order
    trace,          \* the driver calls the last call made, in order
    statements,     \* execute_script: the list `statements` after the split loop
    pending,        \* execute_script: the list `current_statement` after the split loop
    frame,          \* the table and the expected_cols the caller validates
    arg,            \* the arguments of the last save_results call
    files,          \* file system: path -> kind of content written there
    dirs            \* file system: the directories that exist

vars == <<password, scriptFile, engine, enginesCreated, disposed, checkedOut, op,
          outcome, log, trace, statements, pending, frame, arg, files, dirs>>

----------------------------------------------------------------------------
(* Bounds of the model                                                      *)

\* longest generated script text, in characters
MaxScriptLen == 4

\* largest number of columns in an expected_cols list
MaxExpected == 2

\* largest row count a query returns / a statement affects
MaxRows == 1

----------------------------------------------------------------------------
(* Python str operations on sequences of characters                         *)

\* An Optional argument or setting: None (with a value of the right shape in v,
\* never read), or a value.
NoneOf(shape) == [present |-> FALSE, v |-> shape]

Some(v) == [present |-> TRUE, v |-> v]

NL == "\n"

\* The characters str.strip() removes: those for which str.isspace() holds.
\* A character that has no escape in a TLA+ string stands in a text as the one
\* element that spells its Python escape.
Whitespace ==
    { "\t", "\n", "\\x0b", "\f", "\r", "\\x1c", "\\x1d", "\\x1e", "\\x1f", " ",
      "\\x85", "\\xa0", "\\u1680", "\\u2000", "\\u2001", "\\u2002", "\\u2003",
      "\\u2004", "\\u2005", "\\u2006", "\\u2007", "\\u2008", "\\u2009", "\\u200a",
      "\\u2028", "\\u2029", "\\u202f", "\\u205f", "\\u3000" }

IsSpace(c) == c \in Whitespace

RECURSIVE LStrip(_)
LStrip(s) ==
    IF s = <<>> THEN s
    ELSE IF IsSpace(Head(s)) THEN LStrip(Tail(s)) ELSE s

RECURSIVE RStrip(_)
RStrip(s) ==
    IF s = <<>> THEN s
    ELSE IF IsSpace(s[Len(s)]) THEN RStrip(SubSeq(s, 1, Len(s) - 1)) ELSE s

\* s.strip()
Strip(s) == RStrip(LStrip(s))

\* s.startswith(p)
StartsWith(s, p) == Len(s) >= Len(p) /\ SubSeq(s, 1, Len(p)) = p

\* s.endswith(p)
EndsWith(s, p) == Len(s) >= Len(p) /\ SubSeq(s, Len(s) - Len(p) + 1, Len(s)) = p

\* s.split(sep)[0]: the text before the first occurrence of sep
RECURSIVE SplitFirst(_, _)
SplitFirst(s, sep) ==
    IF s = <<>> THEN <<>>
    ELSE IF StartsWith(s, sep) THEN <<>>
    ELSE <<Head(s)>> \o SplitFirst(Tail(s), sep)

\* s.split('\n'): the lines of s; the empty text has one empty line
RECURSIVE SplitLines(_)
SplitLines(s) ==
    LET first == SplitFirst(s, <<NL>>)
    IN  IF Len(first) = Len(s) THEN <<first>>
        ELSE <<first>> \o SplitLines(SubSeq(s, Len(first) + 2, Len(s)))

\* '\n'.join(lines)
RECURSIVE Join(_)
Join(lines) ==
    IF lines = <<>> THEN <<>>
    ELSE IF Len(lines) = 1 THEN lines[1]
    ELSE lines[1] \o <<NL>> \o Join(Tail(lines))

----------------------------------------------------------------------------
(* execute_script: reading the file (lines 120-121)                         *)

\* open(script_path, 'r') ... f.read(): the file is read in text mode, which hands
\* every line end of the file, "\r\n" or "\r" or "\n", to the program as "\n".
RECURSIVE read(_)
read(content) ==
    IF content = <<>> THEN <<>>
    ELSE IF Head(content) = "\r"
         THEN IF Len(content) >= 2 /\ content[2] = NL
              THEN <<NL>> \o read(SubSeq(content, 3, Len(content)))
              ELSE <<NL>> \o read(Tail(content))
         ELSE <<Head(content)>> \o read(Tail(content))

----------------------------------------------------------------------------
(* execute_script: the statement splitter (lines 125-144)                   *)

\* line.strip().startswith('--')
IsCommentOnly(line) == StartsWith(Strip(line), <<"-", "-">>)

\* line.split('--')[0].strip()
LineWithoutComment(line) == Strip(SplitFirst(line, <<"-", "-">>))

\* line_without_comment.endswith(';')
EndsStatement(line) == EndsWith(LineWithoutComment(line), <<";">>)

\* A splitter that knows nothing of comments: a line counts when it is not blank,
\* and ends a statement when its own text ends with a semicolon.
SplitStepNoComments(st, line) ==
    IF Strip(line) = <<>> THEN st
    ELSE LET cur == Append(st.current, line)
         IN  IF EndsWith(Strip(line), <<";">>)
             THEN [statements |-> Append(st.statements, Join(cur)), current |-> <<>>]
             ELSE [statements |-> st.statements, current |-> cur]

\* One iteration of the loop over the lines: st = [statements, current].
SplitStep(st, line) ==
    IF IsCommentOnly(line) THEN st
    ELSE IF LineWithoutComment(line) = <<>> THEN st
    ELSE LET cur == Append(st.current, line)
         IN  IF EndsStatement(line)
             THEN [statements |-> IF Strip(Join(cur)) # <<>>
                                  THEN Append(st.statements, Join(cur))
                                  ELSE st.statements,
                   current |-> <<>>]
             ELSE [statements |-> st.statements, current |-> cur]

RECURSIVE SplitLoop(_, _)
SplitLoop(st, lines) ==
    IF lines = <<>> THEN st
    ELSE SplitLoop(SplitStep(st, Head(lines)), Tail(lines))

\* A splitter that also emits the lines left over at the end of the text.
SplitScriptFlushTrailing(text) ==
    LET st == SplitLoop([statements |-> <<>>, current |-> <<>>], SplitLines(text))
    IN  IF st.current = <<>> THEN st
        ELSE [statements |-> Append(st.statements, Join(st.current)), current |-> <<>>]

\* The lists `statements` and `current_statement` when the loop has ended.
SplitScript(text) ==
    SplitLoop([statements |-> <<>>, current |-> <<>>], SplitLines(text))

----------------------------------------------------------------------------
(* Values shared by the operations                                          *)

\* An exception: its type, its message, the values the message names, and the
\* length of str(e) (kept for the driver's errors, which alone are truncated).
Error(type, msg, detail, len) ==
    [type |-> type, msg |-> msg, detail |-> detail, len |-> len]

NoError == Error("none", "", {}, 0)

\* what the driver raises: a short and a long message
Errors ==
    { Error("ProgrammingError", "syntax error", {}, 40),
      Error("OperationalError", "cannot connect", {}, 140) }

DriverOutcomes == {NoError} \cup Errors

Returned(v) == [status |-> "returned", value |-> v, error |-> NoError]

Raised(e) == [status |-> "raised", value |-> <<>>, error |-> e]

LogRecord(level, event, data) == [level |-> level, event |-> event, data |-> data]

DriverCall(call, what, e) == [call |-> call, what |-> what, error |-> e]

Min(a, b) == IF a <= b THEN a ELSE b

\* str(e)[:100], by its length
TruncLen == 100

Truncated(e) == Min(e.len, TruncLen)

----------------------------------------------------------------------------
(* DatabaseConnection.__init__ and _connect                                 *)

\* `not self.password`: None and the empty text are both falsy
Falsy(p) == ~p.present \/ p.v = <<>>

UnsetEngine == [kind |-> "unset", url |-> <<>>]

NoneEngine == [kind |-> "None", url |-> <<>>]

\* urllib.parse.quote_plus, for the characters the passwords are made of
PercentCode(c) ==
    CASE c = "@" -> <<"%", "4", "0">>
      [] c = "#" -> <<"%", "2", "3">>
      [] c = "$" -> <<"%", "2", "4">>
      [] c = "/" -> <<"%", "2", "F">>
      [] c = ":" -> <<"%", "3", "A">>
      [] c = " " -> <<"+">>
      [] OTHER   -> <<c>>

RECURSIVE quote_plus(_)
quote_plus(s) ==
    IF s = <<>> THEN <<>> ELSE PercentCode(Head(s)) \o quote_plus(Tail(s))

\* the connection string, by its parts (the other settings keep their defaults)
ConnectionString(pw) ==
    <<"mysql+pymysql://", "root", ":">> \o quote_plus(pw)
        \o <<"@", "localhost", ":", "3306", "/", "funnel_project">>

\* _connect: create_engine returns an engine or raises
connect(pw, created) ==
    IF created = NoError
    THEN [engine  |-> [kind |-> "Engine", url |-> ConnectionString(pw)],
          created |-> 1,
          log     |-> <<LogRecord("INFO", "Connected to database", <<>>)>>,
          outcome |-> Returned(<<>>)]
    ELSE [engine  |-> NoneEngine,
          created |-> 0,
          log     |-> <<>>,
          outcome |-> Raised(created)]

\* An __init__ that connects first and checks the password afterwards.
initConnectFirst(pw, created) ==
    IF Falsy(pw)
    THEN [engine  |-> connect(pw.v, created).engine,
          created |-> connect(pw.v, created).created,
          log     |-> connect(pw.v, created).log,
          outcome |-> Raised(Error("ValueError", "DB_PASSWORD not found in environment variables",
                                    {}, 46))]
    ELSE connect(pw.v, created)

\* __init__, from the reading of the settings on
init(pw, created) ==
    IF Falsy(pw)
    THEN [engine  |-> UnsetEngine,
          created |-> 0,
          log     |-> <<>>,
          outcome |-> Raised(Error("ValueError", "DB_PASSWORD not found in environment variables",
                                    {}, 46))]
    ELSE connect(pw.v, created)

\* A manager exists once __init__ has returned.
Constructed == op # "none" /\ engine.kind = "Engine"

Construct ==
    /\ op = "none"
    /\ \E created \in DriverOutcomes :
         \E r \in {init(password, created)} :
             /\ engine' = r.engine
             /\ enginesCreated' = enginesCreated + r.created
             /\ log' = r.log
             /\ outcome' = r.outcome
    /\ op' = "__init__"
    /\ trace' = <<>>
    /\ UNCHANGED <<password, scriptFile, disposed, checkedOut, statements, pending,
                   frame, arg, files, dirs>>

----------------------------------------------------------------------------
(* The scoped sub-connection: `with self.engine.connect() as conn:`         *)

\* engine.connect() returned: one more connection is checked out
PoolCheckout(n) == n + 1

\* An exit that gives the connection back only when the body returned.
WithExitLeakOnError(n, bodyRaised) == IF bodyRaised THEN n ELSE n - 1

\* the with statement's exit, reached whether the body returned or raised
WithExit(n, bodyRaised) == n - 1

----------------------------------------------------------------------------
(* execute_query and get_table                                              *)

\* d: what the driver does in this call: [connect, execute, commit, rows]
execute_query(query, d, n) ==
    IF d.connect # NoError
    THEN [outcome |-> Raised(d.connect),
          log     |-> <<LogRecord("ERROR", "Query execution failed", d.connect)>>,
          trace   |-> <<DriverCall("connect", <<>>, d.connect)>>,
          checkedOut |-> n]
    ELSE IF d.execute # NoError
    THEN [outcome |-> Raised(d.execute),
          log     |-> <<LogRecord("ERROR", "Query execution failed", d.execute)>>,
          trace   |-> <<DriverCall("connect", <<>>, NoError),
                        DriverCall("execute", query, d.execute),
                        DriverCall("release", <<>>, NoError)>>,
          checkedOut |-> WithExit(PoolCheckout(n), TRUE)]
    ELSE [outcome |-> Returned(<<d.rows>>),
          log     |-> <<LogRecord("INFO", "Query executed successfully", d.rows)>>,
          trace   |-> <<DriverCall("connect", <<>>, NoError),
                        DriverCall("execute", query, NoError),
                        DriverCall("release", <<>>, NoError)>>,
          checkedOut |-> WithExit(PoolCheckout(n), FALSE)]

Digits == <<"0", "1", "2", "3", "4", "5", "6", "7", "8", "9">>

\* str(n) of a natural number
RECURSIVE Str(_)
Str(n) ==
    IF n < 10 THEN <<Digits[n + 1]>>
    ELSE Str(n \div 10) \o <<Digits[(n % 10) + 1]>>

\* the query get_table builds; `if limit:` skips None and 0
TableQuery(name, limit) ==
    <<"SELECT * FROM ", name>>
        \o (IF limit.present /\ limit.v # 0 THEN <<" LIMIT ">> \o Str(limit.v) ELSE <<>>)

get_table(name, limit, d, n) == execute_query(TableQuery(name, limit), d, n)

----------------------------------------------------------------------------
(* execute_nonquery                                                         *)

\* A non-query that commits in a finally clause, also after a failed execution.
execute_nonqueryCommitAlways(query, d, n) ==
    IF d.connect # NoError
    THEN [outcome |-> Raised(d.connect),
          log     |-> <<LogRecord("ERROR", "Non-query execution failed", d.connect)>>,
          trace   |-> <<DriverCall("connect", <<>>, d.connect)>>,
          checkedOut |-> n]
    ELSE IF d.execute # NoError
    THEN [outcome |-> Raised(d.execute),
          log     |-> <<LogRecord("ERROR", "Non-query execution failed", d.execute)>>,
          trace   |-> <<DriverCall("connect", <<>>, NoError),
                        DriverCall("execute", query, d.execute),
                        DriverCall("commit", <<>>, NoError),
                        DriverCall("release", <<>>, NoError)>>,
          checkedOut |-> n]
    ELSE [outcome |-> IF d.commit # NoError THEN Raised(d.commit) ELSE Returned(<<d.rows>>),
          log     |-> IF d.commit # NoError
                      THEN <<LogRecord("ERROR", "Non-query execution failed", d.commit)>>
                      ELSE <<LogRecord("INFO", "Non-query executed successfully", d.rows)>>,
          trace   |-> <<DriverCall("connect", <<>>, NoError),
                        DriverCall("execute", query, NoError),
                        DriverCall("commit", <<>>, d.commit),
                        DriverCall("release", <<>>, NoError)>>,
          checkedOut |-> n]

execute_nonquery(query, d, n) ==
    IF d.connect # NoError
    THEN [outcome |-> Raised(d.connect),
          log     |-> <<LogRecord("ERROR", "Non-query execution failed", d.connect)>>,
          trace   |-> <<DriverCall("connect", <<>>, d.connect)>>,
          checkedOut |-> n]
    ELSE IF d.execute # NoError
    THEN [outcome |-> Raised(d.execute),
          log     |-> <<LogRecord("ERROR", "Non-query execution failed", d.execute)>>,
          trace   |-> <<DriverCall("connect", <<>>, NoError),
                        DriverCall("execute", query, d.execute),
                        DriverCall("release", <<>>, NoError)>>,
          checkedOut |-> WithExit(PoolCheckout(n), TRUE)]
    ELSE IF d.commit # NoError
    THEN [outcome |-> Raised(d.commit),
          log     |-> <<LogRecord("ERROR", "Non-query execution failed", d.commit)>>,
          trace   |-> <<DriverCall("connect", <<>>, NoError),
                        DriverCall("execute", query, NoError),
                        DriverCall("commit", <<>>, d.commit),
                        DriverCall("release", <<>>, NoError)>>,
          checkedOut |-> WithExit(PoolCheckout(n), TRUE)]
    ELSE [outcome |-> Returned(<<d.rows>>),
          log     |-> <<LogRecord("INFO", "Non-query executed successfully", d.rows)>>,
          trace   |-> <<DriverCall("connect", <<>>, NoError),
                        DriverCall("execute", query, NoError),
                        DriverCall("commit", <<>>, NoError),
                        DriverCall("release", <<>>, NoError)>>,
          checkedOut |-> WithExit(PoolCheckout(n), FALSE)]

----------------------------------------------------------------------------
(* execute_script                                                           *)

\* logger.warning(f"Statement {i} failed (may be expected): {str(e)[:100]}")
StatementWarning(i, e) ==
    LogRecord("WARNING", "Statement failed (may be expected)", <<i, e.type, Truncated(e)>>)

\* The body of the loop for statement i; f[i] = [execute, commit] is what the
\* driver does with it. A failure is caught inside the loop.
RunStatement(stmts, i, f) ==
    IF f[i].execute # NoError
    THEN [trace |-> <<DriverCall("execute", stmts[i], f[i].execute)>>,
          log   |-> <<StatementWarning(i, f[i].execute)>>]
    ELSE IF f[i].commit # NoError
    THEN [trace |-> <<DriverCall("execute", stmts[i], NoError),
                      DriverCall("commit", <<>>, f[i].commit)>>,
          log   |-> <<StatementWarning(i, f[i].commit)>>]
    ELSE [trace |-> <<DriverCall("execute", stmts[i], NoError),
                      DriverCall("commit", <<>>, NoError)>>,
          log   |-> <<>>]

\* A loop without the inner try: the first failing statement ends it.
RECURSIVE RunStatementsAbort(_, _, _)
RunStatementsAbort(stmts, i, f) ==
    IF i > Len(stmts) THEN [trace |-> <<>>, log |-> <<>>]
    ELSE LET step == RunStatement(stmts, i, f)
         IN  IF step.log # <<>> THEN step
             ELSE [trace |-> step.trace \o RunStatementsAbort(stmts, i + 1, f).trace,
                   log   |-> RunStatementsAbort(stmts, i + 1, f).log]

\* for i, statement in enumerate(statements, 1): ...
RECURSIVE RunStatements(_, _, _)
RunStatements(stmts, i, f) ==
    IF i > Len(stmts) THEN [trace |-> <<>>, log |-> <<>>]
    ELSE LET step == RunStatement(stmts, i, f)
             rest == RunStatements(stmts, i + 1, f)
         IN  [trace |-> step.trace \o rest.trace, log |-> step.log \o rest.log]

EmptySplit == [statements |-> <<>>, current |-> <<>>]

\* opened: what open(script_path) does; split: the lists the split loop has built
\* from the file's text (SplitScript), nothing when the file could not be opened;
\* connected: what engine.connect() does; f: what the driver does per statement.
execute_script(opened, split, connected, f, n) ==
    IF opened # NoError
    THEN [outcome |-> Raised(opened),
          log     |-> <<LogRecord("ERROR", "Script execution failed", opened)>>,
          trace   |-> <<>>,
          statements |-> <<>>,
          pending |-> <<>>,
          checkedOut |-> n]
    ELSE     IF connected # NoError
             THEN [outcome |-> Raised(connected),
                   log     |-> <<LogRecord("ERROR", "Script execution failed", connected)>>,
                   trace   |-> <<DriverCall("connect", <<>>, connected)>>,
                   statements |-> split.statements,
                   pending |-> split.current,
                   checkedOut |-> n]
             ELSE LET run == RunStatements(split.statements, 1, f)
                  IN  [outcome |-> Returned(<<>>),
                       log     |-> run.log \o
                                   <<LogRecord("INFO", "Script executed",
                                               Len(split.statements))>>,
                       trace   |-> <<DriverCall("connect", <<>>, NoError)>> \o run.trace
                                   \o <<DriverCall("release", <<>>, NoError)>>,
                       statements |-> split.statements,
                       pending |-> split.current,
                       checkedOut |-> WithExit(PoolCheckout(n), FALSE)]

----------------------------------------------------------------------------
(* close                                                                    *)

\* `if self.engine:` then dispose and log. The Engine object is kept in
\* self.engine; dispose() closes the pooled connections and leaves the engine
\* with a fresh pool.
close(e) ==
    IF e.kind = "Engine"
    THEN [disposed |-> TRUE,
          log      |-> <<LogRecord("INFO", "Database connection closed", <<>>)>>,
          trace    |-> <<DriverCall("dispose", <<>>, NoError)>>]
    ELSE [disposed |-> FALSE, log |-> <<>>, trace |-> <<>>]

----------------------------------------------------------------------------
(* validate_dataframe                                                       *)

\* the elements of a list: set(xs)
Range(xs) == {xs[i] : i \in 1..Len(xs)}

\* df.isnull().sum().sum(): df = [columns, nulls], nulls[c] the null count of c
RECURSIVE NullSum(_, _)
NullSum(df, cols) ==
    IF cols = <<>> THEN 0 ELSE df.nulls[Head(cols)] + NullSum(df, Tail(cols))

\* The difference taken the wrong way round.
MissingColsReversed(df, expected_cols) == Range(df.columns) \ Range(expected_cols)

\* set(expected_cols) - set(df.columns)
MissingCols(df, expected_cols) == Range(expected_cols) \ Range(df.columns)

\* the null check and the closing rule (lines 206-213)
NullCheck(df) ==
    (IF NullSum(df, df.columns) > 0
     THEN <<LogRecord("WARNING", "Null values found",
                      {c \in Range(df.columns) : df.nulls[c] > 0})>>
     ELSE <<LogRecord("INFO", "No null values", {})>>)
    \o <<LogRecord("INFO", "====", {})>>

\* expected: the Optional expected_cols; `if expected_cols:` skips None and []
validate_dataframe(df, expected) ==
    LET head == <<LogRecord("INFO", "====", {}),
                  LogRecord("INFO", "Validating DataFrame", {}),
                  LogRecord("INFO", "====", {}),
                  LogRecord("INFO", "Shape", {Len(df.columns)}),
                  LogRecord("INFO", "Columns", Range(df.columns)),
                  LogRecord("INFO", "Memory usage", {})>>
    IN  IF expected.present /\ expected.v # <<>>
        THEN IF MissingCols(df, expected.v) # {}
             THEN [outcome |-> Raised(Error("ValueError", "Missing required columns",
                                            MissingCols(df, expected.v), 0)),
                   log     |-> head]
             ELSE [outcome |-> Returned(<<>>),
                   log     |-> head
                               \o <<LogRecord("INFO", "All expected columns present", {})>>
                               \o NullCheck(df)]
        ELSE [outcome |-> Returned(<<>>), log |-> head \o NullCheck(df)]

----------------------------------------------------------------------------
(* save_results                                                             *)

\* a path is the list of its components; os.path.dirname drops the last one
Dirname(path) == SubSeq(path, 1, Len(path) - 1)

\* os.makedirs(d, exist_ok=True): d and every directory above it
MakeDirs(d, ds) == ds \cup {SubSeq(d, 1, k) : k \in 1..Len(d)}

Absent == "absent"

\* data: the kind of value passed ("DataFrame", "dict", or another type)
save_results(data, path, file_format, fs, ds) ==
    IF Dirname(path) = <<>>
    THEN \* os.makedirs('') raises
         [outcome |-> Raised(Error("FileNotFoundError", "No such file or directory", {}, 0)),
          log |-> <<>>, files |-> fs, dirs |-> ds]
    ELSE LET made  == MakeDirs(Dirname(path), ds)
             saved == <<LogRecord("INFO", "Results saved to", {path})>>
         IN  IF data = "DataFrame"
             THEN IF file_format = "csv"
                  THEN [outcome |-> Returned(<<>>), log |-> saved,
                        files |-> [fs EXCEPT ![path] = "csv"], dirs |-> made]
                  ELSE IF file_format = "parquet"
                  THEN [outcome |-> Returned(<<>>), log |-> saved,
                        files |-> [fs EXCEPT ![path] = "parquet"], dirs |-> made]
                  ELSE [outcome |-> Raised(Error("ValueError",
                                                 "Unsupported format for DataFrame",
                                                 {file_format}, 0)),
                        log |-> <<>>, files |-> fs, dirs |-> made]
             ELSE IF data = "dict"
             THEN \* json.dump, whatever file_format is
                  [outcome |-> Returned(<<>>), log |-> saved,
                   files |-> [fs EXCEPT ![path] = "json"], dirs |-> made]
             ELSE [outcome |-> Raised(Error("ValueError", "Unsupported data type",
                                            {data}, 0)),
                   log |-> <<>>, files |-> fs, dirs |-> made]

----------------------------------------------------------------------------
(* The inputs                                                               *)

\* DB_PASSWORD: not set, set to the empty text, plain, with reserved characters
Passwords ==
    { NoneOf(<<>>), Some(<<>>), Some(<<"p", "w">>), Some(<<"p", "@", " ", "#">>) }

\* "SELECT 1; -- comment\nSELECT 2;\n-- full comment line\nSELECT 3;"
ExampleScript ==
    <<"S", "E", "L", "E", "C", "T", " ", "1", ";", " ", "-", "-", " ", "c", "o", "m",
      "m", "e", "n", "t", "\n", "S", "E", "L", "E", "C", "T", " ", "2", ";", "\n", "-",
      "-", " ", "f", "u", "l", "l", " ", "c", "o", "m", "m", "e", "n", "t", " ", "l",
      "i", "n", "e", "\n", "S", "E", "L", "E", "C", "T", " ", "3", ";">>

\* a script of comment lines and blank lines only
CommentOnlyScript ==
    <<"-", "-", " ", "s", "e", "t", "u", "p", "\n", "\n", " ", " ", "-", "-", " ", "n",
      "o", "t", "h", "i", "n", "g", " ", "t", "o", " ", "r", "u", "n", "\n", " ", " ",
      " ", "\n">>

\* a script with the three kinds of line end and a form feed after a semicolon:
\* "a;\r\nb;\f\rc;\nd"
LineEndScript ==
    <<"a", ";", "\r", "\n", "b", ";", "\f", "\r", "c", ";", "\n", "d">>

\* the characters the generated scripts are made of
Alphabet == {"a", ";", "-", " ", NL, "\r"}

\* every text of at most n characters
AllTexts(n) == UNION {[1..k -> Alphabet] : k \in 0..n}

Scripts == AllTexts(MaxScriptLen) \cup {ExampleScript, CommentOnlyScript, LineEndScript}

MainScripts == {ExampleScript, CommentOnlyScript, LineEndScript}

FileNotFound == Error("FileNotFoundError", "No such file or directory", {}, 0)

\* what the driver does in one query or non-query call
DriverRuns ==
    { d \in [connect : DriverOutcomes, execute : DriverOutcomes,
             commit : DriverOutcomes, rows : 0..MaxRows] :
        /\ d.connect # NoError => d.execute = NoError
        /\ (d.connect # NoError \/ d.execute # NoError) => d.commit = NoError
        /\ (d.connect # NoError \/ d.execute # NoError \/ d.commit # NoError)
              => d.rows = 0 }

\* what the driver does with one statement of a script
StmtOutcomes ==
    { [execute |-> NoError, commit |-> NoError] }
        \cup { [execute |-> e, commit |-> NoError] : e \in Errors }
        \cup { [execute |-> NoError, commit |-> e] : e \in Errors }

Queries == { <<"SELECT * FROM events WHERE id = :id">> }

NonQueries == { <<"TRUNCATE TABLE events">> }

Tables == { "events" }

Limits == { NoneOf(0), Some(0), Some(5), Some(12) }

Cols == {"a", "b", "c"}

\* lists of distinct columns
ColumnLists ==
    {cs \in UNION {[1..k -> Cols] : k \in 0..2} :
        \A i, j \in 1..Len(cs) : i # j => cs[i] # cs[j]}

DataFrames ==
    UNION { {[columns |-> cs, nulls |-> nf] : nf \in [Range(cs) -> 0..MaxRows]} :
            cs \in ColumnLists }

ExpectedCols ==
    {NoneOf(<<>>)} \cup {Some(xs) : xs \in UNION {[1..k -> Cols] : k \in 0..MaxExpected}}

DataKinds == {"DataFrame", "dict", "list"}

Formats == {"csv", "parquet", "json", "xlsx"}

Paths == { <<"r.out">>, <<"results", "r.out">>, <<"results", "run", "r.out">> }

----------------------------------------------------------------------------
(* The calls a caller can make                                              *)

ExecuteQuery ==
    /\ Constructed
    /\ \E q \in Queries, d \in {x \in DriverRuns : x.commit = NoError} :
         \E r \in {execute_query(q, d, checkedOut)} :
             /\ outcome' = r.outcome
             /\ log' = r.log
             /\ trace' = r.trace
             /\ checkedOut' = r.checkedOut
    /\ op' = "execute_query"
    /\ UNCHANGED <<password, scriptFile, engine, enginesCreated, disposed, statements,
                   pending, frame, arg, files, dirs>>

ExecuteNonquery ==
    /\ Constructed
    /\ \E q \in NonQueries, d \in DriverRuns :
         \E r \in {execute_nonquery(q, d, checkedOut)} :
             /\ outcome' = r.outcome
             /\ log' = r.log
             /\ trace' = r.trace
             /\ checkedOut' = r.checkedOut
    /\ op' = "execute_nonquery"
    /\ UNCHANGED <<password, scriptFile, engine, enginesCreated, disposed, statements,
                   pending, frame, arg, files, dirs>>

GetTable ==
    /\ Constructed
    /\ \E t \in Tables, limit \in Limits, d \in {x \in DriverRuns : x.commit = NoError} :
         \E r \in {get_table(t, limit, d, checkedOut)} :
             /\ outcome' = r.outcome
             /\ log' = r.log
             /\ trace' = r.trace
             /\ checkedOut' = r.checkedOut
    /\ op' = "get_table"
    /\ UNCHANGED <<password, scriptFile, engine, enginesCreated, disposed, statements,
                   pending, frame, arg, files, dirs>>

ExecuteScript ==
    /\ Constructed
    /\ \E opened \in {NoError, FileNotFound} :
         \E split \in {IF opened = NoError THEN SplitScript(read(scriptFile)) ELSE EmptySplit} :
           \E connected \in DriverOutcomes :
             \E f \in IF opened = NoError /\ connected = NoError
                      THEN [1..Len(split.statements) -> StmtOutcomes]
                      ELSE {<<>>} :
               \E r \in {execute_script(opened, split, connected, f, checkedOut)} :
                 /\ outcome' = r.outcome
                 /\ log' = r.log
                 /\ trace' = r.trace
                 /\ statements' = r.statements
                 /\ pending' = r.pending
                 /\ checkedOut' = r.checkedOut
    /\ op' = "execute_script"
    /\ UNCHANGED <<password, scriptFile, engine, enginesCreated, disposed, frame, arg,
                   files, dirs>>

Close ==
    /\ Constructed
    /\ \E r \in {close(engine)} :
           /\ disposed' = (disposed \/ r.disposed)
           /\ log' = r.log
           /\ trace' = r.trace
    /\ outcome' = Returned(<<>>)
    /\ op' = "close"
    /\ UNCHANGED <<password, scriptFile, engine, enginesCreated, checkedOut, statements,
                   pending, frame, arg, files, dirs>>

ValidateDataframe ==
    /\ \E r \in {validate_dataframe(frame.df, frame.expected)} :
         /\ outcome' = r.outcome
         /\ log' = r.log
    /\ op' = "validate_dataframe"
    /\ trace' = <<>>
    /\ UNCHANGED <<password, scriptFile, engine, enginesCreated, disposed, checkedOut,
                   statements, pending, frame, arg, files, dirs>>

SaveResults ==
    /\ \E data \in DataKinds, path \in Paths, file_format \in Formats :
         \E r \in {save_results(data, path, file_format, files, dirs)} :
             /\ outcome' = r.outcome
             /\ log' = r.log
             /\ files' = r.files
             /\ dirs' = r.dirs
             /\ arg' = [data |-> data, path |-> path, file_format |-> file_format]
    /\ op' = "save_results"
    /\ trace' = <<>>
    /\ UNCHANGED <<password, scriptFile, engine, enginesCreated, disposed, checkedOut,
                   statements, pending, frame>>

----------------------------------------------------------------------------
(* The specifications                                                       *)

NoFrame == [df |-> [columns |-> <<>>, nulls |-> <<>>], expected |-> NoneOf(<<>>)]

Fresh ==
    /\ engine = UnsetEngine
    /\ enginesCreated = 0
    /\ disposed = FALSE
    /\ checkedOut = 0
    /\ op = "none"
    /\ outcome = Returned(<<>>)
    /\ log = <<>>
    /\ trace = <<>>
    /\ statements = <<>>
    /\ pending = <<>>
    /\ arg = <<>>
    /\ files = [p \in Paths |-> Absent]
    /\ dirs = {}

\* The connection manager, from its construction to any calls after close().
Init ==
    /\ password \in Passwords
    /\ scriptFile \in MainScripts
    /\ frame = NoFrame
    /\ Fresh

Next ==
    \/ Construct
    \/ ExecuteQuery
    \/ ExecuteNonquery
    \/ ExecuteScript
    \/ GetTable
    \/ Close

Spec == Init /\ [][Next]_vars

\* execute_script over every script text within the bound.
InitScript ==
    /\ password = Some(<<"p", "w">>)
    /\ scriptFile \in Scripts
    /\ frame = NoFrame
    /\ Fresh

NextScript ==
    \/ Construct
    \/ ExecuteScript
    \/ Close

SpecScript == InitScript /\ [][NextScript]_vars

\* validate_dataframe over every table and expected_cols within the bounds.
InitValidate ==
    /\ password = NoneOf(<<>>)
    /\ scriptFile = <<>>
    /\ frame \in [df : DataFrames, expected : ExpectedCols]
    /\ Fresh

NextValidate == ValidateDataframe

SpecValidate == InitValidate /\ [][NextValidate]_vars

\* save_results, call after call on one file system.
InitSave ==
    /\ password = NoneOf(<<>>)
    /\ scriptFile = <<>>
    /\ frame = NoFrame
    /\ Fresh

NextSave == SaveResults

SpecSave == InitSave /\ [][NextSave]_vars

----------------------------------------------------------------------------
(* What the properties read off a state                                     *)

\* the positions 1..Len(xs), in order
Positions(xs) == [k \in 1..Len(xs) |-> k]

\* The driver calls a script run made between taking and giving back the
\* sub-connection.
Body == SubSeq(trace, 2, Len(trace) - 1)

\* execute_script read the file and was given a sub-connection.
ScriptRan ==
    /\ op = "execute_script"
    /\ Len(trace) >= 2
    /\ trace[1].call = "connect"
    /\ trace[1].error = NoError

\* where in Body each statement was handed to the driver
ExecPos == SelectSeq(Positions(Body), LAMBDA k : Body[k].call = "execute")

\* the statement executed at position k of Body failed, in execute or in commit
FailedAt(k) ==
    \/ Body[k].error # NoError
    \/ /\ k < Len(Body)
       /\ Body[k + 1].call = "commit"
       /\ Body[k + 1].error # NoError

\* the numbers of the statements that failed, in order
FailedStatements ==
    SelectSeq(Positions(ExecPos), LAMBDA i : FailedAt(ExecPos[i]))

Warnings == SelectSeq(log, LAMBDA r : r.level = "WARNING")

ErrorRecords == SelectSeq(log, LAMBDA r : r.level = "ERROR")

\* the text of the script as the program reads it
sql_script == read(scriptFile)

\* a line of a script, read without the splitter: where its comment starts
CommentStart(line) ==
    LET at == {k \in 1..(Len(line) - 1) : line[k] = "-" /\ line[k + 1] = "-"}
    IN  IF at = {} THEN Len(line) + 1 ELSE CHOOSE k \in at : \A j \in at : k <= j

\* its text before the comment
CodeOf(line) == SubSeq(line, 1, CommentStart(line) - 1)

BlankText(t) == \A k \in 1..Len(t) : IsSpace(t[k])

\* a line holding a comment only: whitespace, then --
CommentLine(line) ==
    /\ CommentStart(line) <= Len(line)
    /\ BlankText(CodeOf(line))

\* a line that carries statement text
CodeLine(line) == ~BlankText(CodeOf(line))

\* a code line whose text before the comment ends, whitespace aside, with ;
TerminatorLine(line) ==
    /\ CodeLine(line)
    /\ \E k \in 1..Len(CodeOf(line)) :
         /\ CodeOf(line)[k] = ";"
         /\ BlankText(SubSeq(CodeOf(line), k + 1, Len(CodeOf(line))))

\* the number of semicolons of a script that stand outside its comments
RECURSIVE SemicolonCount(_)
SemicolonCount(lines) ==
    IF lines = <<>> THEN 0
    ELSE Cardinality({k \in 1..Len(CodeOf(Head(lines))) : CodeOf(Head(lines))[k] = ";"})
         + SemicolonCount(Tail(lines))

\* the text of a script with its comments taken out
RECURSIVE CodeText(_)
CodeText(lines) ==
    IF lines = <<>> THEN <<>>
    ELSE IF Len(lines) = 1 THEN CodeOf(lines[1])
    ELSE CodeOf(lines[1]) \o <<NL>> \o CodeText(Tail(lines))

\* the number of semicolons of a text that end statement text which is not blank;
\* hasText: the statement being read has a character that is not whitespace
RECURSIVE TerminatedCount(_, _)
TerminatedCount(text, hasText) ==
    IF text = <<>> THEN 0
    ELSE IF Head(text) = ";"
         THEN (IF hasText THEN 1 ELSE 0) + TerminatedCount(Tail(text), FALSE)
         ELSE TerminatedCount(Tail(text), hasText \/ ~IsSpace(Head(text)))

\* the lines of all the statements, one after the other
RECURSIVE LinesOf(_)
LinesOf(stmts) ==
    IF stmts = <<>> THEN <<>> ELSE SplitLines(Head(stmts)) \o LinesOf(Tail(stmts))

----------------------------------------------------------------------------
(* The properties                                                           *)

\* C1: when execute_script has read its script and holds a sub-connection,
\* whatever subset of the statements fails at the driver: every parsed statement
\* is handed to the driver exactly once and in script order, a statement whose
\* execution succeeds is followed at once by its own commit, a failing statement
\* leaves exactly one warning and no error record, and the call returns.
C1_ErrorIsolation ==
    ScriptRan =>
        /\ outcome.status = "returned"
        /\ Len(ExecPos) = Len(statements)
        /\ \A i \in 1..Len(ExecPos) : Body[ExecPos[i]].what = statements[i]
        /\ \A k \in 1..Len(Body) :
             /\ Body[k].call \in {"execute", "commit"}
             /\ (Body[k].call = "execute" /\ Body[k].error = NoError)
                   => (k < Len(Body) /\ Body[k + 1].call = "commit")
             /\ (Body[k].call = "execute" /\ Body[k].error # NoError)
                   => (k = Len(Body) \/ Body[k + 1].call = "execute")
             /\ Body[k].call = "commit"
                   => (k > 1 /\ Body[k - 1].call = "execute" /\ Body[k - 1].error = NoError)
        /\ Len(Warnings) = Len(FailedStatements)
        /\ \A j \in 1..Len(Warnings) : Warnings[j].data[1] = FailedStatements[j]
        /\ ErrorRecords = <<>>

\* C1 witness: a script of three statements whose second statement fails while
\* the first and the third are executed and committed.
C1_Witness ==
    /\ ScriptRan
    /\ Len(statements) = 3
    /\ FailedStatements = <<2>>
    /\ Len(SelectSeq(Body, LAMBDA c : c.call = "commit" /\ c.error = NoError)) = 2
    /\ outcome.status = "returned"

\* C2 (as claimed): every semicolon-terminated statement of the script becomes
\* one entry of execute_script's list. So the list has an entry for each
\* semicolon outside the comments that ends statement text which is not blank,
\* and no more entries than there are semicolons outside the comments.
C2_EverySemicolonEndsAStatement ==
    (op = "execute_script" /\ outcome.error # FileNotFound) =>
        /\ Len(statements) >= TerminatedCount(CodeText(SplitLines(sql_script)), FALSE)
        /\ Len(statements) <= SemicolonCount(SplitLines(sql_script))

\* C3: with no password (or an empty one) in the configuration, construction
\* raises the configuration error, and no engine is ever created, no connect
\* event logged, no driver call made: the manager never leaves Uninitialized.
C3_NoPasswordFailsBeforeConnect ==
    (~password.present \/ password.v = <<>>) =>
        /\ engine.kind = "unset"
        /\ enginesCreated = 0
        /\ trace = <<>>
        /\ \A k \in 1..Len(log) : log[k].event # "Connected to database"
        /\ op \in {"none", "__init__"}
        /\ op = "__init__" =>
             (outcome.status = "raised" /\ outcome.error.type = "ValueError")

\* C3 witness: construction was tried without a password and raised.
C3_Witness ==
    /\ ~password.present
    /\ op = "__init__"
    /\ outcome.status = "raised"

\* C4: between calls no sub-connection is checked out, whatever calls were made
\* and however each ended.
C4_NoLeakedConnection == checkedOut = 0

\* C4 witness: a call that had taken a sub-connection raised, and nothing is held.
C4_Witness ==
    /\ op \in {"execute_query", "execute_nonquery", "get_table"}
    /\ outcome.status = "raised"
    /\ Len(trace) >= 2
    /\ trace[1].error = NoError
    /\ checkedOut = 0

\* C5 (as claimed): a save_results call whose data kind and format are not one of
\* (DataFrame, csv), (DataFrame, parquet), (dict, json) raises and leaves the
\* files as they were.
C5_OnlySupportedCombinationsWrite ==
    [][ (op' = "save_results"
            /\ <<arg'.data, arg'.file_format>> \notin
                 {<<"DataFrame", "csv">>, <<"DataFrame", "parquet">>, <<"dict", "json">>})
          => (outcome'.status = "raised" /\ files' = files) ]_vars

\* C6 (as claimed): once close() has been called, every execute_query,
\* execute_nonquery, execute_script or get_table call fails.
C6_CallsAfterCloseFail ==
    (disposed /\ op \in {"execute_query", "execute_nonquery", "execute_script", "get_table"})
        => outcome.status = "raised"

\* C7: validate_dataframe raises exactly when expected_cols is given and some
\* expected column is not a column of the table; the error names exactly the
\* missing columns; otherwise it returns, and null values leave a warning only.
C7_RaisesExactlyOnMissingColumns ==
    op = "validate_dataframe" =>
        LET actual  == {frame.df.columns[k] : k \in 1..Len(frame.df.columns)}
            missing == IF frame.expected.present
                       THEN {c \in Cols : /\ \E k \in 1..Len(frame.expected.v) :
                                                frame.expected.v[k] = c
                                          /\ c \notin actual}
                       ELSE {}
            nulls   == {c \in actual : frame.df.nulls[c] > 0}
        IN  /\ outcome.status = "raised" <=> missing # {}
            /\ outcome.status = "raised" =>
                 (outcome.error.type = "ValueError" /\ outcome.error.detail = missing)
            /\ ErrorRecords = <<>>
            /\ (missing = {} /\ nulls # {}) =>
                 /\ outcome.status = "returned"
                 /\ Len(Warnings) = 1
                 /\ Warnings[1].data = nulls

\* C7 witness: expected_cols = ["a", "b"] against a table with column a only
\* raises, naming {"b"}.
C7_Witness ==
    /\ op = "validate_dataframe"
    /\ frame.expected = Some(<<"a", "b">>)
    /\ frame.df.columns = <<"a">>
    /\ outcome.status = "raised"
    /\ outcome.error.detail = {"b"}

\* the script holds comment lines and blank lines only
OnlyCommentsAndBlanks(text) ==
    \A k \in 1..Len(SplitLines(text)) :
        CommentLine(SplitLines(text)[k]) \/ BlankText(SplitLines(text)[k])

\* C8 (as claimed): on a script of comment lines and blank lines only,
\* execute_script never raises, whatever the state of the database connection.
C8_CommentOnlyNeverRaises ==
    (op = "execute_script" /\ outcome.error # FileNotFound
        /\ OnlyCommentsAndBlanks(sql_script))
        => outcome.status = "returned"

\* C8 (amended): on a script of comment lines and blank lines only that it could
\* read, execute_script hands no statement to the driver; when it is given a
\* sub-connection it logs completion with a count of zero and returns, and it
\* raises only when engine.connect() fails, logging that error and raising it.
C8_CommentOnlyRunsNothing ==
    (op = "execute_script" /\ outcome.error # FileNotFound
        /\ OnlyCommentsAndBlanks(sql_script))
        => /\ statements = <<>>
           /\ \A k \in 1..Len(trace) : trace[k].call \notin {"execute", "commit"}
           /\ ScriptRan =>
                /\ outcome.status = "returned"
                /\ log = <<LogRecord("INFO", "Script executed", 0)>>
           /\ ~ScriptRan =>
                /\ trace = <<DriverCall("connect", <<>>, outcome.error)>>
                /\ outcome.status = "raised"
                /\ log = <<LogRecord("ERROR", "Script execution failed", outcome.error)>>

\* C8 witness: a script with a comment line and a blank line ran to completion.
C8_Witness ==
    /\ ScriptRan
    /\ scriptFile = CommentOnlyScript
    /\ outcome.status = "returned"
    /\ log = <<LogRecord("INFO", "Script executed", 0)>>

\* C9: execute_nonquery commits at most once, and only right after a successful
\* execution; when it returns, the driver saw execute then commit and the value
\* is the affected-row count; when the execution fails there is no commit, the
\* error is logged and that same error is raised.
C9_CommitOnceAfterExecute ==
    op = "execute_nonquery" =>
        LET commits == {k \in 1..Len(trace) : trace[k].call = "commit"}
            execs   == {k \in 1..Len(trace) : trace[k].call = "execute"}
        IN  /\ Cardinality(commits) <= 1
            /\ Cardinality(execs) <= 1
            /\ \A k \in commits :
                 k > 1 /\ trace[k - 1].call = "execute" /\ trace[k - 1].error = NoError
            /\ outcome.status = "returned" =>
                 /\ \E k \in commits : trace[k].error = NoError
                 /\ \E k \in execs : trace[k].error = NoError
                 /\ log = <<LogRecord("INFO", "Non-query executed successfully",
                                      outcome.value[1])>>
            /\ \A k \in execs : trace[k].error # NoError =>
                 /\ commits = {}
                 /\ outcome = Raised(trace[k].error)
                 /\ log = <<LogRecord("ERROR", "Non-query execution failed",
                                      trace[k].error)>>
            /\ \A k \in execs : trace[k].error = NoError => commits # {}

\* C9 witness: a non-query whose execution failed at the driver.
C9_Witness ==
    /\ op = "execute_nonquery"
    /\ \E k \in 1..Len(trace) : trace[k].call = "execute" /\ trace[k].error # NoError
    /\ outcome.status = "raised"

\* C10: every statement of execute_script's list ends in a code line whose text
\* before the comment ends with a semicolon, and holds no such line before its
\* last; the statements' lines, followed by the lines left over, are the code
\* lines of the script in order; the lines left over after the last such line
\* hold no terminator, are never handed to the driver, are not counted in the
\* logged total and leave no warning or error.
C10_TrailingStatementDropped ==
    (op = "execute_script" /\ outcome.error # FileNotFound) =>
        /\ \A i \in 1..Len(statements) :
             LET ls == SplitLines(statements[i])
             IN  /\ TerminatorLine(ls[Len(ls)])
                 /\ \A k \in 1..(Len(ls) - 1) : ~TerminatorLine(ls[k])
        /\ LinesOf(statements) \o pending
             = SelectSeq(SplitLines(sql_script), LAMBDA l : CodeLine(l) /\ ~CommentLine(l))
        /\ \A k \in 1..Len(pending) : ~TerminatorLine(pending[k])
        /\ ScriptRan =>
             /\ Len(ExecPos) = Len(statements)
             /\ \A i \in 1..Len(ExecPos) : Body[ExecPos[i]].what = statements[i]
             /\ log[Len(log)] = LogRecord("INFO", "Script executed", Len(statements))
             /\ Len(log) = Len(FailedStatements) + 1
             /\ outcome.status = "returned"

\* C10 witness: a script ran whose last code line has no semicolon; one statement
\* was executed and the trailing line was left over.
C10_Witness ==
    /\ ScriptRan
    /\ Len(statements) = 1
    /\ pending # <<>>
    /\ outcome.status = "returned"
    /\ log = <<LogRecord("INFO", "Script executed", 1)>>

====
